---- MODULE Spec2Model ----
(***************************************************************************)
(* Trade_Raven.py: a Discord bot that polls a Sleeper league's transaction *)
(* feed, announces each completed trade once, values both sides with a     *)
(* player-value table (ktc_values) backed by a SQLite table (players), and *)
(* tracks the league week.                                                 *)
(*                                                                         *)
(* Strings the program inspects character by character (player names) are  *)
(* sequences of one-character strings; a dict is a function whose DOMAIN   *)
(* is its key set.                                                         *)
(***************************************************************************)
EXTENDS Integers, Sequences, FiniteSets, TLC

\* ------------------------------------------------------------------------
\* Bounds of the model
\* ------------------------------------------------------------------------
\* longest transaction feed one fetch returns
MaxFeedLen == 2
\* trade messages the channel accepts before every send fails
MaxSends == 2
\* largest week number a command argument takes
MaxWeek == 2
\* longest CSV body (rows) one download returns
MaxRows == 2
\* clock readings per day, and the days the clock runs
TicksPerDay == 2
MaxDays == 11

\* ------------------------------------------------------------------------
\* Names
\* ------------------------------------------------------------------------
s_KenWalker == <<"K","e","n"," ","W","a","l","k","e","r">>
s_KennethWalkerIII == <<"K","e","n","n","e","t","h"," ","W","a","l","k","e","r"," ","I","I","I">>
s_DJMoore == <<"D","J"," ","M","o","o","r","e">>
s_D_J_Moore == <<"D",".","J","."," ","M","o","o","r","e">>
s_CMC == <<"C","M","C">>
s_ChristianMcCaffrey == <<"C","h","r","i","s","t","i","a","n"," ","M","c","C","a","f","f","r","e","y">>
s_JJ == <<"J","J">>
s_JustinJefferson == <<"J","u","s","t","i","n"," ","J","e","f","f","e","r","s","o","n">>
s_Bijan == <<"B","i","j","a","n">>
s_BijanRobinson == <<"B","i","j","a","n"," ","R","o","b","i","n","s","o","n">>
s_Tyreek == <<"T","y","r","e","e","k">>
s_TyreekHill == <<"T","y","r","e","e","k"," ","H","i","l","l">>
\* further table keys and command arguments
s_ChristianKirk == <<"C","h","r","i","s","t","i","a","n"," ","K","i","r","k">>
s_abcdef == <<"a","b","c","d","e","f">>
s_ab == <<"a","b">>
s_zz == <<"z","z">>
s_CMC_padded == <<" ","C","M","C"," ">>

manual_ktc_overrides ==
    (s_KenWalker :> s_KennethWalkerIII) @@ (s_DJMoore :> s_D_J_Moore) @@
    (s_CMC :> s_ChristianMcCaffrey) @@ (s_JJ :> s_JustinJefferson) @@
    (s_Bijan :> s_BijanRobinson) @@ (s_Tyreek :> s_TyreekHill)

\* the characters of the names, in code point order (str comparison)
CodePoints ==
    <<" ", ".", "0", "1", "2", "3", "4", "5", "6", "7", "8", "9",
      "A", "B", "C", "D", "E", "F", "G", "H", "I", "J", "K", "L", "M",
      "N", "O", "P", "Q", "R", "S", "T", "U", "V", "W", "X", "Y", "Z",
      "a", "b", "c", "d", "e", "f", "g", "h", "i", "j", "k", "l", "m",
      "n", "o", "p", "q", "r", "s", "t", "u", "v", "w", "x", "y", "z">>

ord(c) == CHOOSE i \in 1..Len(CodePoints) : CodePoints[i] = c

\* s < t for two str values (lexicographic by code point)
RECURSIVE str_lt(_, _)
str_lt(s, t) ==
    IF t = << >> THEN FALSE
    ELSE IF s = << >> THEN TRUE
    ELSE IF Head(s) = Head(t) THEN str_lt(Tail(s), Tail(t))
    ELSE ord(Head(s)) < ord(Head(t))

\* str.strip(): leading and trailing whitespace removed
RECURSIVE lstrip(_)
lstrip(s) == IF s # << >> /\ Head(s) = " " THEN lstrip(Tail(s)) ELSE s

RECURSIVE rstrip(_)
rstrip(s) ==
    IF s # << >> /\ s[Len(s)] = " " THEN rstrip(SubSeq(s, 1, Len(s) - 1)) ELSE s

strip(s) == rstrip(lstrip(s))

\* ------------------------------------------------------------------------
\* difflib.get_close_matches as get_ktc_value calls it (n=1, cutoff=0.5)
\* ------------------------------------------------------------------------
min_of(S) == CHOOSE n \in S : \A m \in S : n <= m
max_of(S) == CHOOSE n \in S : \A m \in S : m <= n
min2(x, y) == IF x <= y THEN x ELSE y

RECURSIVE sum_over(_, _)
sum_over(f, S) ==
    IF S = {} THEN 0
    ELSE LET x == CHOOSE y \in S : TRUE IN f[x] + sum_over(f, S \ {x})

\* the sum of the values of f
total(f) == sum_over(f, DOMAIN f)

\* length of the common run of a from i and b from j, inside a[..ahi], b[..bhi]
RECURSIVE run_len(_, _, _, _, _, _)
run_len(a, b, i, j, ahi, bhi) ==
    IF i > ahi \/ j > bhi \/ a[i] # b[j] THEN 0
    ELSE 1 + run_len(a, b, i + 1, j + 1, ahi, bhi)

\* for every start <<i, j>> in a[alo..ahi], b[blo..bhi]: the length of the
\* common block that starts there
block_sizes(a, b, alo, ahi, blo, bhi) ==
    [p \in (alo..ahi) \X (blo..bhi) |-> run_len(a, b, p[1], p[2], ahi, bhi)]

\* the block of length k that starts at i in a: the earliest in b
block_at(size, k, i) ==
    <<i, min_of({p[2] : p \in {q \in DOMAIN size : size[q] = k /\ q[1] = i}}), k>>

\* the block of length k: the earliest in a
block_of_size(size, k) ==
    block_at(size, k, min_of({p[1] : p \in {q \in DOMAIN size : size[q] = k}}))

\* the longest block
longest_block(size) ==
    block_of_size(size, max_of({size[p] : p \in DOMAIN size}))

\* SequenceMatcher.find_longest_match on a[alo..ahi], b[blo..bhi] (1-based,
\* inclusive): <<i, j, k>>, the longest common block, the earliest in a,
\* then in b
find_longest_match(a, b, alo, ahi, blo, bhi) ==
    IF alo > ahi \/ blo > bhi THEN <<alo, blo, 0>>
    ELSE longest_block(block_sizes(a, b, alo, ahi, blo, bhi))

\* sum of the sizes of SequenceMatcher.get_matching_blocks: the longest
\* block m, then the blocks to its left and to its right
RECURSIVE matches(_, _, _, _, _, _)
RECURSIVE matches_around(_, _, _, _, _, _, _)
matches_around(a, b, alo, ahi, blo, bhi, m) ==
    IF m[3] = 0 THEN 0
    ELSE m[3] + matches(a, b, alo, m[1] - 1, blo, m[2] - 1)
              + matches(a, b, m[1] + m[3], ahi, m[2] + m[3], bhi)

matches(a, b, alo, ahi, blo, bhi) ==
    matches_around(a, b, alo, ahi, blo, bhi,
                   find_longest_match(a, b, alo, ahi, blo, bhi))

\* SequenceMatcher.ratio() = 2.0*matches/(len(a)+len(b)) as the fraction
\* <<numerator, denominator>>; 1.0 when both are empty
ratio(a, b) ==
    IF Len(a) + Len(b) = 0 THEN <<1, 1>>
    ELSE <<2 * matches(a, b, 1, Len(a), 1, Len(b)), Len(a) + Len(b)>>

\* SequenceMatcher.real_quick_ratio(): 2.0*min(la, lb)/(la + lb)
real_quick_ratio(a, b) ==
    IF Len(a) + Len(b) = 0 THEN <<1, 1>>
    ELSE <<2 * min2(Len(a), Len(b)), Len(a) + Len(b)>>

\* occurrences of character ch in s
RECURSIVE occurrences(_, _)
occurrences(s, ch) ==
    IF s = << >> THEN 0
    ELSE (IF Head(s) = ch THEN 1 ELSE 0) + occurrences(Tail(s), ch)

\* SequenceMatcher.quick_ratio(): the characters a and b share, as multisets
quick_ratio(a, b) ==
    IF Len(a) + Len(b) = 0 THEN <<1, 1>>
    ELSE <<2 * total([ch \in {a[i] : i \in 1..Len(a)} |->
                         min2(occurrences(a, ch), occurrences(b, ch))]),
           Len(a) + Len(b)>>

\* r >= num/den, r < q, r = q for ratios held as fractions
ratio_ge(r, num, den) == r[1] * den >= num * r[2]
ratio_lt(r, q) == r[1] * q[2] < q[1] * r[2]
ratio_eq(r, q) == r[1] * q[2] = q[1] * r[2]

\* candidate x passes the three tests against the cutoff 0.5 (seq1 = x,
\* seq2 = word)
is_close(x, word) ==
    /\ ratio_ge(real_quick_ratio(x, word), 1, 2)
    /\ ratio_ge(quick_ratio(x, word), 1, 2)
    /\ ratio_ge(ratio(x, word), 1, 2)

\* (rx, x) < (ry, y) as Python compares the (score, candidate) tuples
pair_lt(rx, x, ry, y) == ratio_lt(rx, ry) \/ (ratio_eq(rx, ry) /\ str_lt(x, y))

\* heapq.nlargest(1, ...) of the (ratio, x) pairs of the candidates in Close
largest(Close, word) ==
    IF Close = {} THEN << >>
    ELSE <<CHOOSE x \in Close : \A y \in Close \ {x} :
                pair_lt(ratio(y, word), y, ratio(x, word), x)>>

\* get_close_matches(word, possibilities, n=1, cutoff=0.5)
get_close_matches(word, possibilities) ==
    largest({x \in possibilities : is_close(x, word)}, word)

\* ------------------------------------------------------------------------
\* get_ktc_value(player_name): [value, name, raised]; db_ok is whether the
\* SQLite query of find_similar_names_in_db succeeds
\* ------------------------------------------------------------------------
NoName == << >>

\* lines 159-161 without the table consulted
override_ignored(name) == name

\* lines 159-161
override(name) ==
    IF name \in DOMAIN manual_ktc_overrides THEN manual_ktc_overrides[name]
    ELSE name

\* lines 168-177: the close match, or the miss with its diagnostic query
close_or_miss(close, values, db_ok) ==
    IF close # << >>
    THEN [value |-> values[close[1]], name |-> close[1], raised |-> FALSE]
    ELSE [value |-> 0, name |-> NoName, raised |-> ~db_ok]

\* lines 163-177
lookup(name_input, values, db_ok) ==
    IF name_input \in DOMAIN values
    THEN [value |-> values[name_input], name |-> name_input, raised |-> FALSE]
    ELSE close_or_miss(get_close_matches(name_input, DOMAIN values),
                       values, db_ok)

get_ktc_value(player_name, values, db_ok) ==
    lookup(override(strip(player_name)), values, db_ok)

\* ------------------------------------------------------------------------
\* The Sleeper API: player directory and transaction feed
\* ------------------------------------------------------------------------
pid_4034 == <<"4","0","3","4">>
pid_9509 == <<"9","5","0","9">>
pid_DEF == <<"S","F">>
pid_77 == <<"7","7">>

\* the JSON of /players/nfl: player id -> player data (a team defence has
\* no full_name; pid_77 is not listed)
players_nfl ==
    (pid_4034 :> [full_name |-> s_CMC]) @@
    (pid_9509 :> [full_name |-> s_Bijan]) @@
    (pid_DEF :> [position |-> "DEF"])

get_player_name_map(players_json) ==
    [pid \in {q \in DOMAIN players_json : "full_name" \in DOMAIN players_json[q]}
        |-> players_json[pid].full_name]

\* dict.get(key, default)
dict_get(d, key, default) == IF key \in DOMAIN d THEN d[key] ELSE default

\* one transaction of the feed.  adds_json / rosters_json say what the JSON
\* holds under "adds" / "roster_ids": an object / a list ("value"), null, or
\* no such key ("missing"); adds lists the (player id, roster id) pairs of
\* the object in order
Transaction(tid, type, status, adds_json, adds, rosters_json, roster_ids) ==
    [transaction_id |-> tid, type |-> type, status |-> status,
     adds_json |-> adds_json, adds |-> adds,
     rosters_json |-> rosters_json, roster_ids |-> roster_ids]

NoTxn == Transaction(0, "none", "none", "missing", << >>, "missing", << >>)

txn_trade_1 ==
    Transaction(1, "trade", "complete", "value",
                <<<<pid_4034, 1>>, <<pid_9509, 2>>>>, "value", <<1, 2>>)
txn_trade_2 ==
    Transaction(2, "trade", "complete", "value",
                <<<<pid_DEF, 2>>, <<pid_77, 1>>, <<pid_9509, 3>>>>,
                "value", <<2, 1, 3>>)
txn_waiver ==
    Transaction(3, "waiver", "complete", "value", <<<<pid_4034, 1>>>>,
                "value", <<1>>)
txn_pending ==
    Transaction(4, "trade", "pending", "value",
                <<<<pid_4034, 1>>, <<pid_9509, 2>>>>, "value", <<1, 2>>)
txn_null_adds ==
    Transaction(5, "trade", "complete", "null", << >>, "value", <<1, 2>>)
txn_one_roster ==
    Transaction(6, "trade", "complete", "value", <<<<pid_4034, 1>>>>,
                "value", <<1>>)

\* the league's transactions of a week, in the order the API lists them
LeagueTransactions ==
    <<txn_trade_1, txn_waiver, txn_pending, txn_null_adds, txn_one_roster,
      txn_trade_2>>

TransactionIds ==
    {LeagueTransactions[i].transaction_id : i \in 1..Len(LeagueTransactions)}

\* the entries of feed at the indices in I, in feed order
RECURSIVE select(_, _, _)
select(feed, I, i) ==
    IF i > Len(feed) THEN << >>
    ELSE (IF i \in I THEN <<feed[i]>> ELSE << >>) \o select(feed, I, i + 1)

\* the feeds a fetch of /transactions/<week> can return: up to MaxFeedLen
\* of the league's transactions, each once, in the API's order
Feeds ==
    {select(LeagueTransactions, I, 1) :
        I \in {J \in SUBSET (1..Len(LeagueTransactions)) :
                  Cardinality(J) <= MaxFeedLen}}

\* what the two fetch_json calls of one cycle can do: both return usable
\* JSON; aiohttp raises a ClientError / timeout; or the payload is not JSON
\* or not of the expected shape (ValueError, TypeError, AttributeError)
FetchOutcomes == {"ok", "fetch_client_error", "fetch_malformed"}

\* the value tables the players table can hold when the process starts
StoredTables ==
    {<< >>, (s_ChristianMcCaffrey :> 2000) @@ (s_BijanRobinson :> 500)}


\* ------------------------------------------------------------------------
\* The DynastyProcess CSV
\* ------------------------------------------------------------------------
\* float(text) for the value_1qb texts of the model; a text outside the
\* table ("NA") makes float raise ValueError
float_table == ("500" :> 500) @@ ("2000" :> 2000)

ValueTexts == {"500", "2000", "NA"}

\* the rows csv.DictReader yields: two players, one of them with every
\* value text
CsvRows ==
    {[player |-> s_ChristianMcCaffrey, value_1qb |-> "2000"]} \cup
    [player : {s_BijanRobinson}, value_1qb : ValueTexts]

\* what requests.get / raise_for_status give: an exception, or a CSV body of
\* up to MaxRows rows
Downloads ==
    {[status |-> "raised", rows |-> << >>]} \cup
    {[status |-> "ok", rows |-> rows] :
        rows \in UNION {[1..n -> CsvRows] : n \in 0..MaxRows}}

NoDownload == [status |-> "none", rows |-> << >>]

\* ktc_result: who ran the last value refresh (update_ktc or the ktcupdate
\* command), the download and the outcome of the table write it met or
\* would have met, whether an exception left it, and what the command
\* replied ("none": nothing after the first message)
NoUpdate ==
    [by |-> "none", download |-> NoDownload, save_ok |-> TRUE,
     propagated |-> FALSE, reply |-> "none"]

\* the footer of a trade message: fair, or the winning roster and the margin
NoVerdict == [fair |-> FALSE, winner |-> 0, margin |-> 0]

\* embed: the two side values and the footer of a trade message
NoEmbed == [v0 |-> 0, v1 |-> 0, verdict |-> NoVerdict]

\* lookup_result: the argument, the diagnostic query's outcome and the
\* result of the last get_ktc_value(player_name, return_best_match=True)
NoLookup ==
    [called |-> FALSE, player_name |-> << >>, db_ok |-> TRUE, value |-> 0,
     name |-> << >>, raised |-> FALSE]

\* ------------------------------------------------------------------------
\* State
\* ------------------------------------------------------------------------
\* the calls of fetch_and_announce_trades: the poll_trades loop's and the
\* checkweek command's
Callers == {"poll_trades", "checkweek"}

VARIABLES
    known_trade_ids,   \* the module's set of announced transaction ids
    ktc_values,        \* the module's dict player name -> value
    players,           \* the SQLite table players: player_name -> ktc_value
    ktc_source_used,   \* the module's data-source label
    current_bot_week,  \* the module's week number
    ready,             \* on_ready has been called
    poll_running,      \* the poll_trades loop's task is alive
    ktc_loop_running,  \* the ktc_update_loop's task is alive
    pc,                \* per caller: where its fetch_and_announce_trades is
    current_week,      \* per caller: the local current_week (0: no call)
    txn,               \* per caller: the transaction being announced
    rest,              \* per caller: the transactions the for loop has left
    sent,              \* per id: the trade messages the channel received
    event,             \* what the last step of fetch_and_announce_trades did
    ktc_result,        \* what the last update_ktc / ktcupdate call did
    embed,             \* per caller: the values and verdict of its message
    lookup_result,     \* what the last get_ktc_value call of ktcvalue did
    now,               \* datetime.now(UTC), in clock readings
    WEEK_2_START_DATE, \* the module's threshold (0: not yet assigned)
    week_loop_running, \* the update_bot_week loop's task is alive
    week_event,        \* what the last step did to current_bot_week
    on_ready_pc        \* where on_ready is: "idle", or "load_users" (line 226)

vars == <<known_trade_ids, ktc_values, players, ktc_source_used,
          current_bot_week, ready, poll_running, ktc_loop_running, pc,
          current_week, txn, rest, sent, event, ktc_result, embed,
          lookup_result, now, WEEK_2_START_DATE, week_loop_running,
          week_event, on_ready_pc>>

\* event: whether the step skipped a transaction as already known, how the
\* call ended ("no": it did not end) and whether it ended with a qualifying
\* transaction of its feed never examined
Event(skipped, ended, left_behind) ==
    [skipped |-> skipped, ended |-> ended, left_behind |-> left_behind]

NoEvent == Event(FALSE, "no", FALSE)


\* the state after the module is loaded, the players table being one of
\* tables
InitWith(tables) ==
    /\ known_trade_ids = {}
    /\ ktc_values = << >>
    /\ players \in tables
    /\ ktc_source_used = "unknown"
    /\ current_bot_week = 1
    /\ ready = FALSE
    /\ poll_running = FALSE
    /\ ktc_loop_running = FALSE
    /\ pc = [c \in Callers |-> "idle"]
    /\ current_week = [c \in Callers |-> 0]
    /\ txn = [c \in Callers |-> NoTxn]
    /\ rest = [c \in Callers |-> << >>]
    /\ sent = [t \in TransactionIds |-> 0]
    /\ event = NoEvent
    /\ ktc_result = NoUpdate
    /\ embed = [c \in Callers |-> NoEmbed]
    /\ lookup_result = NoLookup
    /\ now = 0
    /\ WEEK_2_START_DATE = 0
    /\ week_loop_running = FALSE
    /\ week_event = "none"
    /\ on_ready_pc = "idle"

Init == InitWith(StoredTables)

\* ------------------------------------------------------------------------
\* SQLite table players
\* ------------------------------------------------------------------------
\* save_ktc_to_db: one upsert per pair, committed together
save_ktc_to_db(table, ktc_dict) ==
    [name \in DOMAIN table \cup DOMAIN ktc_dict |->
        IF name \in DOMAIN ktc_dict THEN ktc_dict[name] ELSE table[name]]

\* load_ktc_from_db: every row as a dict
load_ktc_from_db(table) == table

\* dict.update(other)
dict_update(d, other) ==
    [k \in DOMAIN d \cup DOMAIN other |->
        IF k \in DOMAIN other THEN other[k] ELSE d[k]]

\* datetime.replace(hour=0, minute=0, second=0, microsecond=0)
midnight(t) == (t \div TicksPerDay) * TicksPerDay

\* ------------------------------------------------------------------------
\* on_ready, lines 207-235.  discord.py calls it when the connection is
\* ready, also after a reconnect.  It runs to its await of load_users (line
\* 226), where the commands and the loops can run, and goes on when
\* load_users returns or raises.
\* ------------------------------------------------------------------------
\* lines 209-226: channel.send (line 215) raising anything but
\* discord.Forbidden (line 216) ends on_ready before the table is read;
\* otherwise ktc_values is updated with the table's rows and on_ready
\* waits for load_users
on_ready ==
    /\ on_ready_pc = "idle"
    /\ ready' = TRUE
    /\ \E send_raised \in BOOLEAN :
          IF send_raised
          THEN /\ ktc_values' = ktc_values
               /\ on_ready_pc' = "idle"
          ELSE /\ ktc_values' =
                      dict_update(ktc_values, load_ktc_from_db(players))
               /\ on_ready_pc' = "load_users"
    /\ event' = NoEvent
    /\ ktc_result' = NoUpdate
    /\ lookup_result' = NoLookup
    /\ week_event' = "none"
    /\ UNCHANGED <<known_trade_ids, players, ktc_source_used,
                   current_bot_week, poll_running, ktc_loop_running, pc,
                   current_week, txn, rest, sent, embed, now,
                   WEEK_2_START_DATE, week_loop_running>>

\* lines 229-235: Loop.start() raises RuntimeError when the loop's task is
\* launched and not completed, and on_ready ends there; poll, ktc, week:
\* the tasks alive before, start: WEEK_2_START_DATE before, t: the clock
start_loops(poll, ktc, week, start, t) ==
    IF poll
    THEN [poll |-> poll, ktc |-> ktc, week |-> week, start |-> start]
    ELSE IF ktc
    THEN [poll |-> TRUE, ktc |-> ktc, week |-> week, start |-> start]
    ELSE [poll |-> TRUE, ktc |-> TRUE, week |-> TRUE,
          start |-> midnight(t) + 2 * TicksPerDay]

\* the state after lines 229-235 left r
AfterStart(r) ==
    /\ poll_running' = r.poll
    /\ ktc_loop_running' = r.ktc
    /\ week_loop_running' = r.week
    /\ WEEK_2_START_DATE' = r.start

\* lines 226-235: load_users returns and the loops are started, or it
\* raises (a fetch from Sleeper fails) and on_ready ends
load_users_returns ==
    /\ on_ready_pc = "load_users"
    /\ on_ready_pc' = "idle"
    /\ \E users_loaded \in BOOLEAN :
          IF users_loaded
          THEN AfterStart(start_loops(poll_running, ktc_loop_running,
                                      week_loop_running, WEEK_2_START_DATE,
                                      now))
          ELSE UNCHANGED <<poll_running, ktc_loop_running,
                           week_loop_running, WEEK_2_START_DATE>>
    /\ event' = NoEvent
    /\ ktc_result' = NoUpdate
    /\ week_event' = "none"
    /\ UNCHANGED <<known_trade_ids, ktc_values, players, ktc_source_used,
                   current_bot_week, ready, pc, current_week, txn, rest,
                   sent, embed, lookup_result, now>>


\* ------------------------------------------------------------------------
\* fetch_and_announce_trades: the for loop over the fetched transactions
\* ------------------------------------------------------------------------
\* line 287: the transaction passes the type / status filter
is_complete_trade(t) == t.type = "trade" /\ t.status = "complete"

\* line 290 without the membership test
already_known_never(tid, known) == FALSE

\* line 290: the id is already announced
already_known(tid, known) == tid \in known

\* lines 293-296 and 303-304: reverse.get(rid, []), the player ids whose adds
\* entry is roster rid, in the order of adds
RECURSIVE reverse_get(_, _)
reverse_get(adds, rid) ==
    IF adds = << >> THEN << >>
    ELSE IF Head(adds)[2] = rid
         THEN <<Head(adds)[1]>> \o reverse_get(Tail(adds), rid)
         ELSE reverse_get(Tail(adds), rid)

\* lines 305-306: [name_map.get(pid, pid) for pid in ids]
side_names(ids, name_map) == [i \in 1..Len(ids) |-> dict_get(name_map, ids[i], ids[i])]

\* lines 308-309: sum(get_ktc_value(n) for n in names); raised when a
\* get_ktc_value call raises
add_value(v, more) ==
    [value |-> v.value + more.value, raised |-> v.raised \/ more.raised]

RECURSIVE side_value(_, _, _)
side_value(names, values, db_ok) ==
    IF names = << >> THEN [value |-> 0, raised |-> FALSE]
    ELSE add_value(get_ktc_value(Head(names), values, db_ok),
                   side_value(Tail(names), values, db_ok))

\* lines 303-309 for the roster rid
side(t, rid, values, db_ok) ==
    side_value(side_names(reverse_get(t.adds, rid),
                          get_player_name_map(players_nfl)),
               values, db_ok)

both_sides(s0, s1) ==
    [v0 |-> s0.value, v1 |-> s1.value, raised |-> s0.raised \/ s1.raised]

\* lines 298-309 for a transaction whose adds is an object and whose
\* roster_ids has two entries
trade_values(t, values, db_ok) ==
    both_sides(side(t, t.roster_ids[1], values, db_ok),
               side(t, t.roster_ids[2], values, db_ok))

abs(x) == IF x < 0 THEN 0 - x ELSE x

\* line 324 with the band's edge counted as fair
is_fair_inclusive(diff) == abs(diff) <= 200

\* line 324: abs(diff) < 200
is_fair(diff) == abs(diff) < 200

\* lines 324-328: the footer for diff = v0 - v1; the teams are named by
\* their roster ids
verdict(diff, team0, team1) ==
    IF is_fair(diff) THEN [fair |-> TRUE, winner |-> 0, margin |-> 0]
    ELSE [fair |-> FALSE, winner |-> IF diff > 0 THEN team0 ELSE team1,
          margin |-> abs(diff)]

\* lines 311-329: the message composed for transaction t with side values tv
make_embed(t, tv) ==
    [v0 |-> tv.v0, v1 |-> tv.v1,
     verdict |-> verdict(tv.v0 - tv.v1, t.roster_ids[1], t.roster_ids[2])]

\* lines 281-337, from the head of txns to the next suspension or the end of
\* the call: "send" (channel.send is called for .txn with .embed, .rest is
\* left), "done" (the loop is exhausted), "no_channel" (the return of line
\* 334), "lookup_raised" (an exception leaves get_ktc_value and the
\* function) or "raised" (another exception leaves the function).
\* .skipped collects the ids line 291 skipped.
StopWith(kind, t, later, skipped, e) ==
    [kind |-> kind, txn |-> t, rest |-> later, skipped |-> skipped,
     embed |-> e]

Stop(kind, t, later, skipped) == StopWith(kind, t, later, skipped, NoEmbed)

\* lines 308-337 once both sides are valued as tv
announce(t, later, tv, channel_found, skipped) ==
    IF tv.raised THEN Stop("lookup_raised", t, later, skipped)
    ELSE IF ~channel_found THEN Stop("no_channel", t, later, skipped)
    ELSE StopWith("send", t, later, skipped, make_embed(t, tv))

RECURSIVE process_txns(_, _, _, _, _, _)
RECURSIVE process_txn(_, _, _, _, _, _, _)
process_txn(t, later, known, values, channel_found, db_ok, skipped) ==
    IF ~is_complete_trade(t)
    THEN process_txns(later, known, values, channel_found, db_ok, skipped)
    ELSE IF already_known(t.transaction_id, known)
    THEN process_txns(later, known, values, channel_found, db_ok,
                      skipped \cup {t.transaction_id})
    \* adds is null: None.items() raises AttributeError
    ELSE IF t.adds_json = "null" THEN Stop("raised", t, later, skipped)
    \* roster_ids is null: None[:2] raises TypeError
    ELSE IF t.rosters_json = "null" THEN Stop("raised", t, later, skipped)
    ELSE IF Len(t.roster_ids) < 2
    THEN process_txns(later, known, values, channel_found, db_ok, skipped)
    ELSE CHOOSE stop \in {announce(t, later, tv, channel_found, skipped) :
                              tv \in {trade_values(t, values, db_ok)}} : TRUE

process_txns(txns, known, values, channel_found, db_ok, skipped) ==
    IF txns = << >> THEN Stop("done", NoTxn, << >>, skipped)
    ELSE process_txn(Head(txns), Tail(txns), known, values, channel_found,
                     db_ok, skipped)

\* a transaction line 287-291 would let through
qualifies(t, known) ==
    is_complete_trade(t) /\ t.transaction_id \notin known

\* discord.ext.tasks.Loop around poll_trades: an exception other than the
\* connection errors it retries on ends the loop's task
loop_survives(how) ==
    how \notin {"raised", "lookup_raised", "fetch_malformed"}

\* the call of caller c ends
EndCall(c, how, skipped, remaining, known) ==
    /\ pc' = [pc EXCEPT ![c] = "idle"]
    /\ current_week' = [current_week EXCEPT ![c] = 0]
    /\ txn' = [txn EXCEPT ![c] = NoTxn]
    /\ rest' = [rest EXCEPT ![c] = << >>]
    /\ embed' = [embed EXCEPT ![c] = NoEmbed]
    /\ poll_running' = IF c = "poll_trades" THEN loop_survives(how)
                       ELSE poll_running
    /\ event' = Event(skipped # {}, how,
                      \E i \in 1..Len(remaining) : qualifies(remaining[i], known))

\* caller c has run the for loop up to r: it suspends in channel.send or its
\* call ends
ResumeTo(c, r, known) ==
    IF r.kind = "send"
    THEN /\ pc' = [pc EXCEPT ![c] = "send"]
         /\ txn' = [txn EXCEPT ![c] = r.txn]
         /\ rest' = [rest EXCEPT ![c] = r.rest]
         /\ embed' = [embed EXCEPT ![c] = r.embed]
         /\ event' = Event(r.skipped # {}, "no", FALSE)
         /\ UNCHANGED <<current_week, poll_running>>
    ELSE EndCall(c, r.kind, r.skipped, r.rest, known)

\* caller c runs the for loop on txns until it suspends or the call ends;
\* known is known_trade_ids as this step leaves it
Resume(c, txns, known) ==
    \E channel_found \in BOOLEAN, db_ok \in BOOLEAN :
        \E r \in {process_txns(txns, known, ktc_values, channel_found,
                                db_ok, {})} :
            ResumeTo(c, r, known)

\* the trade messages the channel holds
messages(log) == total(log)

\* line 340 as an assignment of a fresh set
known_after_announce_reset(known, tid) == {tid}

\* line 340: known_trade_ids.add(tid)
known_after_announce(known, tid) == known \cup {tid}

\* lines 342-345 with the id recorded in the except clause
known_after_send_failure_recorded(known, tid) == known \cup {tid}

\* lines 342-345: channel.send raised, the except clauses only print
known_after_send_failure(known, tid) == known

\* lines 342-345: an add_reaction raised, the except clauses only print
known_after_reaction_failure(known, tid) == known

\* line 271: current_week = week_override if week_override else current_bot_week
week_to_poll(week_override, bot_week) ==
    IF week_override # 0 THEN week_override ELSE bot_week

\* the calls's steps leave these alone
rest_unchanged == UNCHANGED <<ktc_values, players, ktc_source_used,
                              current_bot_week, ready, ktc_loop_running,
                              ktc_result, lookup_result, now,
                              WEEK_2_START_DATE, week_loop_running,
                              week_event, on_ready_pc>>

\* fetch_and_announce_trades is entered by caller c and suspends in the
\* first fetch_json
StartCall(c, week_override) ==
    /\ pc[c] = "idle"
    /\ pc' = [pc EXCEPT ![c] = "fetching"]
    /\ current_week' = [current_week EXCEPT ![c] =
                            week_to_poll(week_override, current_bot_week)]
    /\ event' = NoEvent
    /\ UNCHANGED <<txn, rest, embed, sent, known_trade_ids, poll_running>>
    /\ rest_unchanged

\* the poll_trades loop (every 30 s, one iteration at a time) calls
\* fetch_and_announce_trades()
poll_trades ==
    /\ poll_running
    /\ StartCall("poll_trades", 0)

\* the checkweek command calls fetch_and_announce_trades(week_override=week)
checkweek ==
    /\ ready
    /\ \E week \in 0..MaxWeek : StartCall("checkweek", week)

\* lines 274-279: the two fetch_json calls return or raise; feeds are the
\* feeds the league's week can show
fetch_json_returns_from(c, feeds) ==
    /\ pc[c] = "fetching"
    /\ UNCHANGED <<known_trade_ids, sent>>
    /\ rest_unchanged
    /\ \E outcome \in FetchOutcomes, transactions \in feeds \cup {<< >>} :
          IF outcome = "ok"
          THEN /\ transactions \in feeds
               /\ Resume(c, transactions, known_trade_ids)
          ELSE /\ transactions = << >>
               /\ EndCall(c, outcome, {}, << >>, known_trade_ids)

fetch_json_returns(c) == fetch_json_returns_from(c, Feeds)

\* line 337: channel.send returns the message or raises (discord.Forbidden
\* or another exception)
channel_send_returns(c) ==
    /\ pc[c] = "send"
    /\ rest_unchanged
    /\ \E delivered \in BOOLEAN :
          IF delivered
          THEN /\ messages(sent) < MaxSends
               /\ sent' = [sent EXCEPT ![txn[c].transaction_id] = @ + 1]
               /\ pc' = [pc EXCEPT ![c] = "react1"]
               /\ event' = NoEvent
               /\ UNCHANGED <<known_trade_ids, current_week, txn, rest,
                              embed, poll_running>>
          ELSE /\ known_trade_ids' =
                      known_after_send_failure(known_trade_ids,
                                               txn[c].transaction_id)
               /\ UNCHANGED sent
               /\ Resume(c, rest[c], known_trade_ids')

\* line 338: the first add_reaction returns or raises
add_reaction_1_returns(c) ==
    /\ pc[c] = "react1"
    /\ UNCHANGED sent
    /\ rest_unchanged
    /\ \E added \in BOOLEAN :
          IF added
          THEN /\ pc' = [pc EXCEPT ![c] = "react2"]
               /\ event' = NoEvent
               /\ UNCHANGED <<known_trade_ids, current_week, txn, rest,
                              embed, poll_running>>
          ELSE /\ known_trade_ids' =
                      known_after_reaction_failure(known_trade_ids,
                                                   txn[c].transaction_id)
               /\ Resume(c, rest[c], known_trade_ids')

\* lines 339-341: the second add_reaction returns, and the id is recorded,
\* or raises
add_reaction_2_returns(c) ==
    /\ pc[c] = "react2"
    /\ UNCHANGED sent
    /\ rest_unchanged
    /\ \E added \in BOOLEAN :
          /\ known_trade_ids' =
                 IF added
                 THEN known_after_announce(known_trade_ids,
                                           txn[c].transaction_id)
                 ELSE known_after_reaction_failure(known_trade_ids,
                                                   txn[c].transaction_id)
          /\ Resume(c, rest[c], known_trade_ids')

\* the forceweek command
forceweek ==
    /\ ready
    /\ \E week \in 0..MaxWeek : current_bot_week' = week
    /\ event' = NoEvent
    /\ week_event' = "forced"
    /\ UNCHANGED <<known_trade_ids, ktc_values, players, ktc_source_used,
                   ready, poll_running, ktc_loop_running, pc, current_week,
                   txn, rest, sent, ktc_result, embed, lookup_result, now,
                   WEEK_2_START_DATE, week_loop_running, on_ready_pc>>

\* ------------------------------------------------------------------------
\* The week clock
\* ------------------------------------------------------------------------
\* the clock's last reading
MaxNow == MaxDays * TicksPerDay

\* time passes
tick ==
    /\ now < MaxNow
    /\ now' = now + 1
    /\ week_event' = "none"
    /\ UNCHANGED <<known_trade_ids, ktc_values, players, ktc_source_used,
                   current_bot_week, ready, poll_running, ktc_loop_running,
                   pc, current_week, txn, rest, sent, event, ktc_result,
                   embed, lookup_result, WEEK_2_START_DATE,
                   week_loop_running, on_ready_pc>>

\* line 247: (today - WEEK_2_START_DATE).days, for today >= WEEK_2_START_DATE
days_passed(today, start) == (today - start) \div TicksPerDay

\* line 248 with the weeks counted from 1
week_after_start_from_one(days) == 1 + (days \div 7)

\* line 248
week_after_start(days) == 2 + (days \div 7)

\* lines 245-248: current_bot_week as update_bot_week leaves it
week_after_update(today, start, week) ==
    IF today >= start THEN week_after_start(days_passed(today, start))
    ELSE week

\* the update_bot_week loop (every 24 h, the first run when on_ready starts
\* it)
update_bot_week ==
    /\ week_loop_running
    /\ current_bot_week' =
           week_after_update(now, WEEK_2_START_DATE, current_bot_week)
    /\ week_event' = "recomputed"
    /\ UNCHANGED <<known_trade_ids, ktc_values, players, ktc_source_used,
                   ready, poll_running, ktc_loop_running, pc, current_week,
                   txn, rest, sent, event, ktc_result, embed, lookup_result,
                   now, WEEK_2_START_DATE, week_loop_running, on_ready_pc>>

\* the clock and the scheduled recomputation alone
NextWeekAuto ==
    \/ on_ready
    \/ load_users_returns
    \/ tick
    \/ update_bot_week

SpecWeekAuto == Init /\ [][NextWeekAuto]_vars

\* the clock, the scheduled recomputation and the forceweek command
NextWeek ==
    \/ on_ready
    \/ load_users_returns
    \/ tick
    \/ update_bot_week
    \/ forceweek

SpecWeek == Init /\ [][NextWeek]_vars

NextTrade ==
    \/ on_ready
    \/ load_users_returns
    \/ poll_trades
    \/ checkweek
    \/ \E c \in Callers : fetch_json_returns(c)
    \/ \E c \in Callers : channel_send_returns(c)
    \/ \E c \in Callers : add_reaction_1_returns(c)
    \/ \E c \in Callers : add_reaction_2_returns(c)

\* the polling and checkweek, started on a filled players table
InitTrade == Init /\ players # << >>

SpecTrade == InitTrade /\ [][NextTrade]_vars


\* ------------------------------------------------------------------------
\* The poll loop alone, on tables whose values lie around the fairness band
\* ------------------------------------------------------------------------
SideValues == {700, 800, 850, 1000}

ValueTables ==
    {(s_ChristianMcCaffrey :> a) @@ (s_BijanRobinson :> b) :
        a \in SideValues, b \in SideValues}

NextAnnounce ==
    \/ on_ready
    \/ load_users_returns
    \/ poll_trades
    \/ fetch_json_returns("poll_trades")
    \/ channel_send_returns("poll_trades")
    \/ add_reaction_1_returns("poll_trades")
    \/ add_reaction_2_returns("poll_trades")

SpecAnnounce == InitWith(ValueTables) /\ [][NextAnnounce]_vars

\* ------------------------------------------------------------------------
\* The poll loop alone while trade 2 stays in the week's feed and the
\* reactions succeed
\* ------------------------------------------------------------------------
LiveFeeds == {f \in Feeds : \E i \in 1..Len(f) : f[i] = txn_trade_2}

fetch_live == fetch_json_returns_from("poll_trades", LiveFeeds)

reaction_1_added ==
    /\ add_reaction_1_returns("poll_trades")
    /\ pc'["poll_trades"] = "react2"

reaction_2_added ==
    /\ add_reaction_2_returns("poll_trades")
    /\ known_trade_ids' # known_trade_ids

NextLive ==
    \/ on_ready
    \/ load_users_returns
    \/ poll_trades
    \/ fetch_live
    \/ channel_send_returns("poll_trades")
    \/ reaction_1_added
    \/ reaction_2_added

\* a fetch that succeeds and brings the loop to a channel.send
fetch_reaches_send == fetch_live /\ pc'["poll_trades"] = "send"

\* a channel.send that returns the message
send_delivered ==
    channel_send_returns("poll_trades") /\ pc'["poll_trades"] = "react1"

\* a step of the loop: its next iteration starts, or an await completes
\* (the loop is at one place at a time, so at most one of these is enabled)
loop_step ==
    \/ poll_trades
    \/ fetch_live
    \/ channel_send_returns("poll_trades")
    \/ reaction_1_added
    \/ reaction_2_added

\* the loop's next iteration is scheduled while its task lives and every
\* await completes; fetches and sends succeed again and again
FairLive ==
    /\ WF_vars(loop_step)
    /\ SF_vars(fetch_reaches_send)
    /\ SF_vars(send_delivered)

SpecLive == InitWith(ValueTables) /\ [][NextLive]_vars /\ FairLive

\* ------------------------------------------------------------------------
\* update_ktc
\* ------------------------------------------------------------------------
\* line 137: {row["player"]: float(row["value_1qb"]) for row in reader};
\* raised when float raises on a row, else the dict (a later row of the same
\* player replaces an earlier one)
RECURSIVE parse_rows(_, _)
parse_rows(rows, dp) ==
    IF rows = << >> THEN [raised |-> FALSE, dp |-> dp]
    ELSE IF Head(rows).value_1qb \notin DOMAIN float_table
    THEN [raised |-> TRUE, dp |-> << >>]
    ELSE parse_rows(Tail(rows),
                    dict_update(dp, Head(rows).player :>
                                        float_table[Head(rows).value_1qb]))

\* line 137 with the rows float rejects left out
RECURSIVE parse_rows_lenient(_, _)
parse_rows_lenient(rows, dp) ==
    IF rows = << >> THEN [raised |-> FALSE, dp |-> dp]
    ELSE IF Head(rows).value_1qb \notin DOMAIN float_table
    THEN parse_rows_lenient(Tail(rows), dp)
    ELSE parse_rows_lenient(Tail(rows),
                            dict_update(dp, Head(rows).player :>
                                        float_table[Head(rows).value_1qb]))

\* lines 132-137 with the lenient parse
fetch_dp_values_lenient(download) ==
    IF download.status = "raised" THEN [raised |-> TRUE, dp |-> << >>]
    ELSE parse_rows_lenient(download.rows, << >>)

\* lines 132-137
fetch_dp_values(download) ==
    IF download.status = "raised" THEN [raised |-> TRUE, dp |-> << >>]
    ELSE parse_rows(download.rows, << >>)

\* lines 144-151: update_ktc once fetch_dp_values has returned dp
update_from(dp, save_ok, values, table, source) ==
    IF dp = << >>
    THEN [values |-> values, table |-> table, source |-> source,
          propagated |-> FALSE]
    ELSE [values |-> dp,
          table |-> IF save_ok THEN save_ktc_to_db(table, dp) ELSE table,
          source |-> source,
          propagated |-> FALSE]

\* lines 141-153 once fetch_dp_values has returned or raised
update_with(fetched, save_ok, values, table, source) ==
    IF fetched.raised
    THEN [values |-> values, table |-> table, source |-> source,
          propagated |-> FALSE]
    ELSE update_from(fetched.dp, save_ok, values, table, source)

\* lines 141-153: the dict, the table and the label update_ktc leaves, and
\* whether an exception leaves it.  The assignment of line 147 binds a local
\* name (the function has no global statement); a save_ktc_to_db that
\* raises has committed nothing and is caught by line 152.
update_ktc(download, save_ok, values, table, source) ==
    update_with(fetch_dp_values(download), save_ok, values, table, source)

\* the module's state after an update_ktc call that left r
AfterUpdate(r, download, save_ok) ==
    /\ ktc_values' = r.values
    /\ players' = r.table
    /\ ktc_source_used' = r.source
    /\ ktc_result' = [by |-> "update_ktc", download |-> download,
                      save_ok |-> save_ok, propagated |-> r.propagated,
                      reply |-> "none"]

\* the ktc_update_loop (every 24 h) calls update_ktc()
ktc_update_loop ==
    /\ ktc_loop_running
    /\ \E download \in Downloads, save_ok \in BOOLEAN :
          AfterUpdate(update_ktc(download, save_ok, ktc_values, players,
                                 ktc_source_used),
                      download, save_ok)
    /\ UNCHANGED <<known_trade_ids, current_bot_week, ready, poll_running,
                   ktc_loop_running, pc, current_week, txn, rest, sent,
                   event, embed, lookup_result, now, WEEK_2_START_DATE,
                   week_loop_running, week_event, on_ready_pc>>

NextKtc ==
    \/ on_ready
    \/ load_users_returns
    \/ ktc_update_loop

SpecKtc == Init /\ [][NextKtc]_vars

\* lines 481-483: the label the ktcsource command reports
ktcsource == ktc_source_used

\* lines 485-494, the ktcupdate command.  Line 489 calls
\* fetch_ktc_fantasypros_selenium, a name the module neither defines nor
\* imports: the call raises NameError after the first ctx.send, whatever
\* the source would yield (download), and lines 490-494 never run.
ktcupdate ==
    /\ ready
    /\ \E download \in Downloads, save_ok \in BOOLEAN :
          ktc_result' = [by |-> "ktcupdate", download |-> download,
                         save_ok |-> save_ok, propagated |-> TRUE,
                         reply |-> "none"]
    /\ UNCHANGED <<known_trade_ids, ktc_values, players, ktc_source_used,
                   current_bot_week, ready, poll_running, ktc_loop_running,
                   pc, current_week, txn, rest, sent, event, embed,
                   lookup_result, now, WEEK_2_START_DATE, week_loop_running,
                   week_event, on_ready_pc>>

NextManual ==
    \/ on_ready
    \/ load_users_returns
    \/ ktcupdate

SpecManual == Init /\ [][NextManual]_vars

\* ------------------------------------------------------------------------
\* Process restart: the process ends at any moment and the module is loaded
\* again (lines 37-51: known_trade_ids = set(), ktc_values = {},
\* ktc_source_used = "unknown", current_bot_week = 1; no loop started, no
\* call in progress).  The file behind DB_PATH (the players table), the
\* channel's messages and the clock are outside the process and stay;
\* ktc_result keeps the record of the last refresh of the run that ended,
\* until on_ready clears it.
\* ------------------------------------------------------------------------
restart ==
    /\ known_trade_ids' = {}
    /\ ktc_values' = << >>
    /\ ktc_source_used' = "unknown"
    /\ current_bot_week' = 1
    /\ ready' = FALSE
    /\ poll_running' = FALSE
    /\ ktc_loop_running' = FALSE
    /\ week_loop_running' = FALSE
    /\ pc' = [c \in Callers |-> "idle"]
    /\ current_week' = [c \in Callers |-> 0]
    /\ txn' = [c \in Callers |-> NoTxn]
    /\ rest' = [c \in Callers |-> << >>]
    /\ event' = NoEvent
    /\ embed' = [c \in Callers |-> NoEmbed]
    /\ lookup_result' = NoLookup
    /\ WEEK_2_START_DATE' = 0
    /\ week_event' = "none"
    /\ on_ready_pc' = "idle"
    /\ UNCHANGED <<players, sent, now, ktc_result>>

NextRestart ==
    \/ on_ready
    \/ load_users_returns
    \/ ktc_update_loop
    \/ restart

SpecRestart == Init /\ [][NextRestart]_vars



\* ------------------------------------------------------------------------
\* The ktcvalue command: get_ktc_value(player_name, return_best_match=True)
\* ------------------------------------------------------------------------
\* the values of the keys the tables of the name resolution are made of
resolve_values ==
    (s_ChristianMcCaffrey :> 2000) @@ (s_CMC :> 100) @@
    (s_BijanRobinson :> 500) @@ (s_abcdef :> 300) @@ (s_ChristianKirk :> 700)

\* the players tables of the name resolution: every choice of keys
ResolveTables ==
    {<< >>} \cup
    {[k \in K |-> resolve_values[k]] :
        K \in (SUBSET DOMAIN resolve_values) \ {{}}}

\* the arguments of the command
LookupNames == {s_CMC, s_CMC_padded, s_Bijan, s_BijanRobinson, s_ab, s_zz}

\* the call returned or raised r
Looked(player_name, db_ok, r) ==
    lookup_result' = [called |-> TRUE, player_name |-> player_name,
                      db_ok |-> db_ok, value |-> r.value, name |-> r.name,
                      raised |-> r.raised]

\* lines 449-450
ktcvalue ==
    /\ ready
    /\ \E player_name \in LookupNames, db_ok \in BOOLEAN :
          Looked(player_name, db_ok,
                 get_ktc_value(player_name, ktc_values, db_ok))
    /\ UNCHANGED <<known_trade_ids, ktc_values, players, ktc_source_used,
                   current_bot_week, ready, poll_running, ktc_loop_running,
                   pc, current_week, txn, rest, sent, event, ktc_result,
                   embed, now, WEEK_2_START_DATE, week_loop_running,
                   week_event, on_ready_pc>>

NextResolve ==
    \/ on_ready
    \/ load_users_returns
    \/ ktcvalue

SpecResolve == InitWith(ResolveTables) /\ [][NextResolve]_vars

\* ------------------------------------------------------------------------
\* Everything together: every step the program takes.  The specifications
\* above each take the steps of one part of the program (the trade calls,
\* the value refresh, the week clock, the name resolution, the restart),
\* with on_ready; their initial tables stand for what the other parts can
\* have left in the players table.
\* ------------------------------------------------------------------------
Next ==
    \/ on_ready
    \/ load_users_returns
    \/ poll_trades
    \/ checkweek
    \/ \E c \in Callers : fetch_json_returns(c)
    \/ \E c \in Callers : channel_send_returns(c)
    \/ \E c \in Callers : add_reaction_1_returns(c)
    \/ \E c \in Callers : add_reaction_2_returns(c)
    \/ forceweek
    \/ ktc_update_loop
    \/ update_bot_week
    \/ tick
    \/ ktcvalue
    \/ ktcupdate
    \/ restart

Spec == Init /\ [][Next]_vars

\* ------------------------------------------------------------------------
\* Properties of the trade polling (SpecTrade)
\* ------------------------------------------------------------------------
\* this step makes caller c call channel.send
NewSend(c) ==
    /\ pc'[c] = "send"
    /\ pc[c] # "send" \/ Len(rest'[c]) < Len(rest[c])

\* C1. Idempotent detection: whenever a caller (the poll or checkweek, any
\* week, any feed) calls channel.send, the transaction is a complete trade
\* whose id is not in known_trade_ids as the for loop examined it.
C1_IdempotentDetection ==
    [][\A c \in Callers :
          NewSend(c) => /\ txn'[c].transaction_id \notin known_trade_ids'
                        /\ txn'[c].type = "trade"
                        /\ txn'[c].status = "complete"]_vars

\* a step skipped an id as already known and went on to announce another
C1_Witness ==
    /\ event.skipped
    /\ event.ended = "no"
    /\ \E c \in Callers : pc[c] = "send" /\ known_trade_ids # {}

\* C2. No transaction id has its trade message delivered more than once.
C2_AtMostOnce == \A t \in TransactionIds : sent[t] <= 1

\* C3. Dedup monotonicity: every step leaves known_trade_ids a superset of
\* what it was.
C3_DedupMonotonic == [][known_trade_ids \subseteq known_trade_ids']_vars

\* two ids were added, one after the other
C3_Witness == known_trade_ids = {1, 2}

\* C4. An id enters known_trade_ids only in a step of a call whose
\* channel.send for that id has returned (the call is at the second
\* add_reaction), never in a step where the send raised or the channel was
\* not found; every known id has had its message sent.
C4_AnnounceBeforeInsert ==
    [][/\ \A t \in known_trade_ids' \ known_trade_ids :
             \E c \in Callers : pc[c] = "react2" /\ txn[c].transaction_id = t
       /\ \A t \in known_trade_ids' : sent'[t] >= 1]_vars

\* an id was sent and inserted while another, not sent, is not known
C4_Witness ==
    /\ 1 \in known_trade_ids /\ sent[1] = 1
    /\ 2 \notin known_trade_ids /\ sent[2] = 0
    /\ event.ended # "no"

\* C5. When channel.send has returned for a transaction, its id is in
\* known_trade_ids when the processing of that transaction ends, whatever
\* the two add_reaction calls do.
C5_DeliveredIsKnown ==
    [][\A c \in Callers :
          (pc[c] \in {"react1", "react2"} /\ pc'[c] \notin {"react1", "react2"})
              => txn[c].transaction_id \in known_trade_ids']_vars

\* C6. Failure isolation: no call ends with a qualifying transaction of its
\* feed never examined.
C6_FailureIsolation == ~event.left_behind

\* C7. A failed or malformed fetch in a poll cycle leaves known_trade_ids,
\* ktc_values and current_bot_week unchanged and the polling task alive.
C7_FetchFailureAbortsCycleOnly ==
    [][(/\ pc["poll_trades"] = "fetching"
        /\ pc'["poll_trades"] = "idle"
        /\ event'.ended \in {"fetch_client_error", "fetch_malformed"})
          => /\ known_trade_ids' = known_trade_ids
             /\ ktc_values' = ktc_values
             /\ current_bot_week' = current_bot_week
             /\ poll_running']_vars

\* C8. No overlapping cycles: at most one call of fetch_and_announce_trades
\* is in progress, the poll's and checkweek's counted together.
C8_NoOverlap == Cardinality({c \in Callers : pc[c] # "idle"}) <= 1

\* ------------------------------------------------------------------------
\* Properties of the value refresh (SpecKtc)
\* ------------------------------------------------------------------------
\* float accepts the row's value
row_parses(row) == row.value_1qb \in DOMAIN float_table

\* the download is an exception, has a row float rejects, or has no row
download_fails(d) ==
    \/ d.status = "raised"
    \/ /\ d.status = "ok"
       /\ \/ d.rows = << >>
          \/ \E i \in 1..Len(d.rows) : ~row_parses(d.rows[i])

\* C9. Ingestion atomicity: an update_ktc whose fetch raises, whose parse
\* raises on a row or yields no pair leaves ktc_values and the players
\* table as they were, and no exception leaves update_ktc.
C9_IngestionAtomic ==
    [][download_fails(ktc_result'.download)
          => /\ ktc_values' = ktc_values
             /\ players' = players
             /\ ~ktc_result'.propagated]_vars

\* a refresh met a CSV whose first row parses and whose second does not,
\* with a filled table
C9_Witness ==
    /\ ktc_values # << >>
    /\ ktc_result.download.status = "ok"
    /\ Len(ktc_result.download.rows) = 2
    /\ row_parses(ktc_result.download.rows[1])
    /\ ~row_parses(ktc_result.download.rows[2])

\* C10. Replace-all with write-through: after an update_ktc whose fetch
\* yielded a non-empty dataset D, ktc_values is D and the players table
\* holds every pair of D, also when the table write fails.
C10_ReplaceAllWriteThrough ==
    LET d == ktc_result.download
        D == fetch_dp_values(d).dp
    IN  (d.status = "ok" /\ ~download_fails(d))
            => /\ ktc_values = D
               /\ \A name \in DOMAIN D :
                     name \in DOMAIN players /\ players[name] = D[name]

\* ------------------------------------------------------------------------
\* Properties of the name resolution (SpecResolve)
\* ------------------------------------------------------------------------
\* the name get_ktc_value looks up for the last call's argument
looked_up == strip(lookup_result.player_name)

\* C11 as stated. Override precedence: whatever the table holds, a call
\* whose (stripped) argument is a key of manual_ktc_overrides returns the
\* mapped canonical name.
C11_OverrideAlways ==
    (lookup_result.called /\ looked_up \in DOMAIN manual_ktc_overrides)
        => /\ ~lookup_result.raised
           /\ lookup_result.name = manual_ktc_overrides[looked_up]

\* C11 amended. Whenever the table holds the mapped canonical name (and
\* whether or not it also holds the argument itself as a key), a call whose
\* argument is a key of manual_ktc_overrides returns the mapped canonical
\* name and its value.
C11_OverridePrecedence ==
    (/\ lookup_result.called
     /\ looked_up \in DOMAIN manual_ktc_overrides
     /\ manual_ktc_overrides[looked_up] \in DOMAIN ktc_values)
        => /\ ~lookup_result.raised
           /\ lookup_result.name = manual_ktc_overrides[looked_up]
           /\ lookup_result.value = ktc_values[manual_ktc_overrides[looked_up]]

\* "CMC" was looked up in a table that holds both "CMC" and "Christian
\* McCaffrey", and the canonical name came back
C11_Witness ==
    /\ lookup_result.called
    /\ lookup_result.player_name = s_CMC
    /\ s_CMC \in DOMAIN ktc_values
    /\ s_ChristianMcCaffrey \in DOMAIN ktc_values
    /\ lookup_result.name = s_ChristianMcCaffrey
    /\ lookup_result.value = 2000

\* the name the last call matched against the table: the stripped argument
\* or the canonical form manual_ktc_overrides maps it to
matched_against == override(looked_up)

\* the similarity ratio of key k and the matched name is 0.5 / is below 0.5
ratio_is_half(k) == ratio_eq(ratio(k, matched_against), <<1, 2>>)
ratio_below_half(k) == ratio_lt(ratio(k, matched_against), <<1, 2>>)

\* C12. Fuzzy threshold boundary: for a name that is not a key of the table,
\* when exactly one key has ratio 0.5 and every other key is below 0.5 the
\* call returns that key and its value; when every key is below 0.5 the
\* call returns (0, None).
C12_FuzzyThresholdBoundary ==
    (lookup_result.called /\ matched_against \notin DOMAIN ktc_values)
        => /\ \A k \in DOMAIN ktc_values :
                 (/\ ratio_is_half(k)
                  /\ \A other \in DOMAIN ktc_values \ {k} :
                        ratio_below_half(other))
                     => /\ ~lookup_result.raised
                        /\ lookup_result.name = k
                        /\ lookup_result.value = ktc_values[k]
           /\ (\A k \in DOMAIN ktc_values : ratio_below_half(k))
                 => /\ ~lookup_result.raised
                    /\ lookup_result.value = 0
                    /\ lookup_result.name = NoName

\* the first half of C12 alone: a single key at ratio 0.5 is returned
C12_AtThresholdAccepted ==
    (lookup_result.called /\ matched_against \notin DOMAIN ktc_values)
        => \A k \in DOMAIN ktc_values :
              (/\ ratio_is_half(k)
               /\ \A other \in DOMAIN ktc_values \ {k} :
                     ratio_below_half(other))
                  => /\ ~lookup_result.raised
                     /\ lookup_result.name = k
                     /\ lookup_result.value = ktc_values[k]

\* C13. Resolution is pure and a miss is not a failure: a call of
\* get_ktc_value changes nothing of the module's state or the players
\* table, no exception leaves it, and when no key matches it returns
\* (0, None) whatever the diagnostic query does.
C13_PureAndMissIsNotFailure ==
    [][(lookup_result' # lookup_result)
          => /\ UNCHANGED <<ktc_values, known_trade_ids, current_bot_week,
                            players>>
             /\ ~lookup_result'.raised
             /\ (lookup_result'.name = NoName => lookup_result'.value = 0)]_vars

\* ------------------------------------------------------------------------
\* Properties of the week clock (SpecWeekAuto, SpecWeek)
\* ------------------------------------------------------------------------
\* the week wall-clock time t gives for the threshold start: 1 before it,
\* then 2 plus one for every 7 whole days since
week_at(t, start) ==
    IF t < start THEN 1 ELSE 2 + (((t - start) \div TicksPerDay) \div 7)

\* C14. Week derivation: with no manual override, every recomputation by
\* update_bot_week leaves current_bot_week = 1 before WEEK_2_START_DATE and
\* 2 + floor(whole days since / 7) from it on, and the week never decreases.
C14_WeekDerivation ==
    [][/\ week_event' = "recomputed"
            => current_bot_week' = week_at(now', WEEK_2_START_DATE')
       /\ current_bot_week' >= current_bot_week]_vars

\* a recomputation 8 days after the threshold left week 3
C14_Witness ==
    /\ week_event = "recomputed"
    /\ now = WEEK_2_START_DATE + 8 * TicksPerDay
    /\ current_bot_week = 3

\* C15. The manual override is not sticky: right after every scheduled
\* recomputation, before or after WEEK_2_START_DATE and whatever forceweek
\* set, current_bot_week is the week wall-clock time gives.
C15_OverrideNotSticky ==
    week_event = "recomputed"
        => current_bot_week = week_at(now, WEEK_2_START_DATE)

\* ------------------------------------------------------------------------
\* Properties of the trade message (SpecAnnounce)
\* ------------------------------------------------------------------------
\* caller c has called channel.send for its message
composing(c) == pc[c] \in {"send", "react1", "react2"}

\* C16. Fairness verdict: the message's verdict is "fair" exactly when
\* |v0 - v1| < 200; otherwise (|v0 - v1| = 200 included) it names the side
\* with the strictly larger value as winner, by |v0 - v1|.
C16_FairnessVerdict ==
    \A c \in Callers :
        composing(c) =>
            /\ embed[c].verdict.fair <=> abs(embed[c].v0 - embed[c].v1) < 200
            /\ ~embed[c].verdict.fair =>
                  /\ embed[c].verdict.margin = abs(embed[c].v0 - embed[c].v1)
                  /\ embed[c].v0 > embed[c].v1 =>
                        embed[c].verdict.winner = txn[c].roster_ids[1]
                  /\ embed[c].v1 > embed[c].v0 =>
                        embed[c].verdict.winner = txn[c].roster_ids[2]

\* a message whose sides differ by exactly 200 was delivered with a winner
C16_Witness ==
    \E c \in Callers :
        /\ pc[c] = "react1"
        /\ embed[c].v0 - embed[c].v1 = 200
        /\ ~embed[c].verdict.fair
        /\ embed[c].verdict.winner = txn[c].roster_ids[1]
        /\ embed[c].verdict.margin = 200

\* the value of asset pid: its directory name, or its raw id when the
\* directory has no name for it, resolved against the table; 0 when nothing
\* matches
asset_value(pid) ==
    get_ktc_value(dict_get(get_player_name_map(players_nfl), pid, pid),
                  ktc_values, TRUE).value

\* the sum of the values of the assets of t whose adds entry is roster rid
side_sum(t, rid) ==
    total([i \in 1..Len(t.adds) |->
              IF t.adds[i][2] = rid THEN asset_value(t.adds[i][1]) ELSE 0])

\* the transaction of the league with id tid
txn_of(tid) ==
    LeagueTransactions[CHOOSE i \in 1..Len(LeagueTransactions) :
                          LeagueTransactions[i].transaction_id = tid]

\* C17. Resolving: a qualifying trade with at least two roster ids gets a
\* message whose side values are the sums over the assets added to
\* roster_ids[0] and to roster_ids[1] (a third roster's assets count for
\* neither, an asset missing from the directory is resolved under its raw
\* id, an unmatched name contributes 0 and never stops the message); a
\* trade with fewer than two roster ids gets no message and is never known.
C17_Resolving ==
    /\ event.ended # "lookup_raised"
    /\ \A c \in Callers :
          composing(c) =>
              /\ Len(txn[c].roster_ids) >= 2
              /\ embed[c].v0 = side_sum(txn[c], txn[c].roster_ids[1])
              /\ embed[c].v1 = side_sum(txn[c], txn[c].roster_ids[2])
    /\ \A tid \in TransactionIds :
          (sent[tid] > 0 \/ tid \in known_trade_ids)
              => Len(txn_of(tid).roster_ids) >= 2

\* C17 without the claim that an unmatched name never stops the message
C17_SidesPartitioned ==
    /\ \A c \in Callers :
          composing(c) =>
              /\ Len(txn[c].roster_ids) >= 2
              /\ embed[c].v0 = side_sum(txn[c], txn[c].roster_ids[1])
              /\ embed[c].v1 = side_sum(txn[c], txn[c].roster_ids[2])
    /\ \A tid \in TransactionIds :
          (sent[tid] > 0 \/ tid \in known_trade_ids)
              => Len(txn_of(tid).roster_ids) >= 2

\* ------------------------------------------------------------------------
\* Properties of the poll loop's progress (SpecLive)
\* ------------------------------------------------------------------------
\* C18. No event is lost: while trade 2 stays in the polled week's feed,
\* fetches and sends succeed again and again and poll_trades is scheduled
\* fairly, trade 2 is eventually announced and known.
C18_NoEventLost ==
    poll_running ~> (sent[2] >= 1 /\ 2 \in known_trade_ids)

\* C18 for as long as the loop's task lives
C18_NoEventLostWhileAlive ==
    poll_running ~> (~poll_running \/ (sent[2] >= 1 /\ 2 \in known_trade_ids))

\* ------------------------------------------------------------------------
\* Properties of the manual refresh and the source label (SpecManual,
\* SpecKtc)
\* ------------------------------------------------------------------------
\* the last refresh met a source that yields a non-empty dataset
source_yields_dataset ==
    /\ ktc_result.download.status = "ok"
    /\ ~download_fails(ktc_result.download)

\* C19. The ktcupdate command does what the scheduled refresh does: when
\* the source yields a non-empty dataset D, the command ends with
\* ktc_values = D, every pair of D in the players table and success
\* reported; no exception leaves it.
C19_ManualRefresh ==
    (ktc_result.by = "ktcupdate" /\ source_yields_dataset)
        => /\ ~ktc_result.propagated
           /\ ktc_result.reply = "success"
           /\ ktc_values = fetch_dp_values(ktc_result.download).dp
           /\ \A name \in DOMAIN ktc_values :
                 name \in DOMAIN players /\ players[name] = ktc_values[name]

\* C20. The data-source label: "unknown" until a refresh, and
\* "DynastyProcess CSV" after every update_ktc call that replaced the value
\* table; a failed or empty refresh leaves it as it was.
C20_SourceLabel ==
    /\ ktc_result.by = "none" => ktcsource = "unknown"
    /\ (ktc_result.by = "update_ktc" /\ source_yields_dataset)
          => ktcsource = "DynastyProcess CSV"

\* ------------------------------------------------------------------------
\* Properties of the restart (SpecRestart)
\* ------------------------------------------------------------------------
\* the last refresh was an update_ktc call that replaced the value table
\* and wrote it to the players table
refresh_succeeded ==
    /\ ktc_result.by = "update_ktc"
    /\ source_yields_dataset
    /\ ktc_result.save_ok

\* the value table the last refresh left in memory
left_by_refresh == fetch_dp_values(ktc_result.download).dp

\* C21. Restart round-trip: when the run that ended had a successful
\* refresh as its last refresh, the table on_ready seeds from the players
\* table after the restart equals the table that refresh left in memory
\* (same names, same values).
C21_RestartRoundTrip ==
    [][(~ready /\ on_ready_pc' = "load_users" /\ refresh_succeeded)
          => ktc_values' = left_by_refresh]_vars

\* C21, the store's part: no step deletes a record of the players table,
\* and a record changes only to the value the refresh of that step wrote
\* for its name.
C21_StoreKeepsRecords ==
    [][\A name \in DOMAIN players :
          /\ name \in DOMAIN players'
          /\ players'[name] # players[name]
                => /\ ktc_result'.by = "update_ktc"
                   /\ name \in DOMAIN fetch_dp_values(ktc_result'.download).dp
                   /\ players'[name] =
                          fetch_dp_values(ktc_result'.download).dp[name]]_vars

\* C21, the seeding: the table on_ready seeds after a restart is the
\* players table, which holds every pair of the table the last successful
\* refresh left in memory.
C21_SeededFromStore ==
    [][(~ready /\ on_ready_pc' = "load_users" /\ refresh_succeeded)
          => /\ ktc_values' = players
             /\ \A name \in DOMAIN left_by_refresh :
                   /\ name \in DOMAIN ktc_values'
                   /\ ktc_values'[name] = left_by_refresh[name]]_vars

====
